---- MODULE Spec2Model ----
(***************************************************************************)
(* A model of amap_navigation.py: the AmapNavigation client (geocode,      *)
(* get_walking_navigation, display_walking_navigation) and the main flow.  *)
(*                                                                         *)
(* Python values are modelled as follows.                                  *)
(*   dict        a function whose DOMAIN is the set of keys present        *)
(*   list        a sequence                                                *)
(*   str         a TLA+ string; a str that the code converts with int()    *)
(*               is a sequence of one-character strings, so that parsing   *)
(*               and formatting are computed                               *)
(*   None        the record None; a value whose type matters (a returned   *)
(*               value, a parsed body) is a PyStr, PyDict or PyList        *)
(*   exception   the name of its class in the field "raised" of an         *)
(*               outcome record ("none" when the call returned normally)   *)
(* A console line is a tuple whose first element names the print           *)
(* statement (the program's own texts are Chinese) and whose other         *)
(* elements are the values it interpolates.  int() is modelled on digits   *)
(* with an optional sign; the values nested in a parsed body have the      *)
(* types the code expects, and any of its keys may be absent.              *)
(***************************************************************************)
EXTENDS Integers, Sequences, FiniteSets, TLC

(***************************************************************************)
(* Bounds of the model.                                                    *)
(***************************************************************************)
\* distances 0..MaxMeters are rendered
MaxMeters == 1300
\* durations 0..MaxSeconds are rendered
MaxSeconds == 200
\* the longest 'steps' list
MaxSteps == 2

(***************************************************************************)
(* int(str) and str(int)                                                   *)
(***************************************************************************)
DigitChars == <<"0", "1", "2", "3", "4", "5", "6", "7", "8", "9">>

IsDigit(c) == \E i \in 1..10 : DigitChars[i] = c

DigitOf(c) == (CHOOSE i \in 1..10 : DigitChars[i] = c) - 1

RECURSIVE DigitsValue(_)
\* the value of a sequence of digit characters, most significant first
DigitsValue(t) ==
    IF t = <<>> THEN 0
    ELSE 10 * DigitsValue(SubSeq(t, 1, Len(t) - 1)) + DigitOf(t[Len(t)])

AllDigits(t) == t # <<>> /\ \A i \in 1..Len(t) : IsDigit(t[i])

\* int(t) of a str t: [ok |-> TRUE, val |-> n], or ok = FALSE for ValueError
ParseInt(t) ==
    IF AllDigits(t) THEN [ok |-> TRUE, val |-> DigitsValue(t)]
    ELSE IF t # <<>> /\ t[1] = "-" /\ AllDigits(Tail(t))
         THEN [ok |-> TRUE, val |-> 0 - DigitsValue(Tail(t))]
    ELSE IF t # <<>> /\ t[1] = "+" /\ AllDigits(Tail(t))
         THEN [ok |-> TRUE, val |-> DigitsValue(Tail(t))]
    ELSE [ok |-> FALSE, val |-> 0]

RECURSIVE NatToText(_)
NatToText(n) ==
    IF n < 10 THEN <<DigitChars[n + 1]>>
    ELSE NatToText(n \div 10) \o <<DigitChars[(n % 10) + 1]>>

\* str(n) of an int n
IntToText(n) == IF n < 0 THEN <<"-">> \o NatToText(0 - n) ELSE NatToText(n)

(***************************************************************************)
(* n / den of two ints, and the format specification .1f                   *)
(*                                                                         *)
(* Python's / on ints yields the IEEE-754 double nearest to the quotient   *)
(* (ties to even), and .1f prints the decimal with one fractional digit    *)
(* nearest to that double (ties to even).  The quotient's 53 significant   *)
(* bits are produced by long division; what remains decides the side on    *)
(* which the double lies.                                                  *)
(***************************************************************************)
RECURSIVE ScaleUp(_, _)
\* the least a * 2^k that is >= b
ScaleUp(a, b) == IF a >= b THEN a ELSE ScaleUp(2 * a, b)

RECURSIVE ScaleDown(_, _)
\* the greatest b * 2^k that is <= a
ScaleDown(a, b) == IF 2 * b > a THEN b ELSE ScaleDown(a, 2 * b)

\* thirteen more bits of the quotient r / b (r < b): the bits and what remains
LongDivision13(r, b) == [quo |-> (r * 8192) \div b, rem |-> (r * 8192) % b]

\* -1, 0, 1: the double a / b is below, equal to, above the quotient (a, b > 0).
\* The significand has 53 bits: the leading one, then four times thirteen.
DivisionError(a, b) ==
    LET num == ScaleUp(a, b)
        den == ScaleDown(num, b)
        d1  == LongDivision13(num - den, den)
        d2  == LongDivision13(d1.rem, den)
        d3  == LongDivision13(d2.rem, den)
        d4  == LongDivision13(d3.rem, den)
    IN  IF d4.rem = 0 THEN 0
        ELSE IF 2 * d4.rem < den THEN -1
        ELSE IF 2 * d4.rem > den THEN 1
        ELSE IF d4.quo % 2 = 0 THEN -1 ELSE 1

\* Tenths with the quotient truncated: f"{10 * n // den / 10:.1f}"
Tenths_truncated(n, den) == (10 * n) \div den

\* the number of tenths that f"{n / den:.1f}" prints, for n >= 0 and den > 0
Tenths(n, den) ==
    LET q == (10 * n) \div den
        r == (10 * n) % den
    IN  IF 2 * r < den THEN q
        ELSE IF 2 * r > den THEN q + 1
        ELSE \* the quotient lies halfway between two tenths
             LET e == DivisionError(n, den)
             IN  IF e > 0 THEN q + 1
                 ELSE IF e < 0 THEN q
                 ELSE IF q % 2 = 0 THEN q ELSE q + 1

\* f"{n / den:.1f}" as text
FormatOneDecimal(n, den) ==
    LET m == IF n < 0 THEN 0 - n ELSE n
        t == Tenths(m, den)
    IN  (IF n < 0 THEN <<"-">> ELSE <<>>)
        \o NatToText(t \div 10) \o <<".">> \o NatToText(t % 10)

(***************************************************************************)
(* Python values and outcomes of calls                                     *)
(***************************************************************************)
None == [kind |-> "None"]

PyStr(s) == [kind |-> "str", value |-> s]

PyDict(d) == [kind |-> "dict", value |-> d]

PyList(l) == [kind |-> "list", value |-> l]

\* bool(v)
Truthy(v) ==
    CASE v.kind = "None" -> FALSE
      [] v.kind = "str"  -> v.value # ""
      [] v.kind = "dict" -> DOMAIN v.value # {}
      [] v.kind = "list" -> v.value # <<>>

Has(d, k) == k \in DOMAIN d

Returned(v, out) == [raised |-> "none", ret |-> v, out |-> out]

Raised(e, out) == [raised |-> e, ret |-> None, out |-> out]

(***************************************************************************)
(* AmapNavigation.__init__                                                 *)
(***************************************************************************)
api_key == "a06cea233db84d92bf07731050dcdada"

geocode_url == "https://restapi.amap.com/v3/geocode/geo"

walking_url == "https://restapi.amap.com/v5/direction/walking"

(***************************************************************************)
(* An HTTP exchange, as requests.get and response.json() see it:           *)
(*   [kind |-> "transport_error"]   requests.get raises                    *)
(*   [kind |-> "not_json"]          response.json() raises                 *)
(*   [kind |-> "json", body |-> v]  response.json() returns v              *)
(***************************************************************************)
\* requests.get(url, params = params) followed by response.json()
HttpGetJson(exch) ==
    CASE exch.kind = "transport_error" -> Raised("ConnectionError", <<>>)
      [] exch.kind = "not_json"        -> Raised("JSONDecodeError", <<>>)
      [] exch.kind = "json"            -> Returned(exch.body, <<>>)

(***************************************************************************)
(* AmapNavigation.geocode                                                  *)
(***************************************************************************)
\* the request that geocode sends
geocode_request(address) ==
    [method |-> "GET", url |-> geocode_url,
     params |-> [key |-> api_key, address |-> address]]

\* geocode_check with result['geocodes'][-1] for result['geocodes'][0]
geocode_check_last(address, result) ==
    IF result.kind # "dict" THEN Raised("TypeError", <<>>)
    ELSE LET r == result.value
         IN  IF ~Has(r, "status") THEN Raised("KeyError", <<>>)
             ELSE IF r.status # "1"
                  THEN Returned(None, << <<"geocode_failed", address>>,
                                         <<"error_info", result>> >>)
             ELSE IF ~Has(r, "count") THEN Raised("KeyError", <<>>)
             ELSE IF r.count = "0"
                  THEN Returned(None, << <<"geocode_failed", address>>,
                                         <<"error_info", result>> >>)
             ELSE IF ~Has(r, "geocodes") THEN Raised("KeyError", <<>>)
             ELSE IF r.geocodes = <<>> THEN Raised("IndexError", <<>>)
             ELSE IF ~Has(r.geocodes[Len(r.geocodes)], "location")
                  THEN Raised("KeyError", <<>>)
             ELSE Returned(PyStr(r.geocodes[Len(r.geocodes)].location), <<>>)

\* geocode_check without the line that prints the address
geocode_check_quiet(address, result) ==
    IF result.kind # "dict" THEN Raised("TypeError", <<>>)
    ELSE LET r == result.value
         IN  IF ~Has(r, "status") THEN Raised("KeyError", <<>>)
             ELSE IF r.status # "1"
                  THEN Returned(None, << <<"error_info", result>> >>)
             ELSE IF ~Has(r, "count") THEN Raised("KeyError", <<>>)
             ELSE IF r.count = "0"
                  THEN Returned(None, << <<"error_info", result>> >>)
             ELSE IF ~Has(r, "geocodes") THEN Raised("KeyError", <<>>)
             ELSE IF r.geocodes = <<>> THEN Raised("IndexError", <<>>)
             ELSE IF ~Has(r.geocodes[1], "location") THEN Raised("KeyError", <<>>)
             ELSE Returned(PyStr(r.geocodes[1].location), <<>>)

\* lines 44 to 50, on the parsed body
geocode_check(address, result) ==
    IF result.kind # "dict" THEN Raised("TypeError", <<>>)
    ELSE LET r == result.value
         IN  IF ~Has(r, "status") THEN Raised("KeyError", <<>>)
             ELSE IF r.status # "1"
                  THEN Returned(None, << <<"geocode_failed", address>>,
                                         <<"error_info", result>> >>)
             ELSE IF ~Has(r, "count") THEN Raised("KeyError", <<>>)
             ELSE IF r.count = "0"
                  THEN Returned(None, << <<"geocode_failed", address>>,
                                         <<"error_info", result>> >>)
             ELSE IF ~Has(r, "geocodes") THEN Raised("KeyError", <<>>)
             ELSE IF r.geocodes = <<>> THEN Raised("IndexError", <<>>)
             ELSE IF ~Has(r.geocodes[1], "location") THEN Raised("KeyError", <<>>)
             ELSE Returned(PyStr(r.geocodes[1].location), <<>>)

\* the body of the try statement
geocode_try(address, exch) ==
    LET got == HttpGetJson(exch)
    IN  IF got.raised # "none" THEN got ELSE geocode_check(address, got.ret)

\* geocode_except with "except requests.RequestException as e"
geocode_except_requests(tried) ==
    IF tried.raised \notin {"ConnectionError", "JSONDecodeError"} THEN tried
    ELSE Returned(None, tried.out \o << <<"geocode_exception", tried.raised>> >>)

\* except Exception as e
geocode_except(tried) ==
    IF tried.raised = "none" THEN tried
    ELSE Returned(None, tried.out \o << <<"geocode_exception", tried.raised>> >>)

\* geocode(address), when the exchange with the service is exch
geocode(address, exch) == geocode_except(geocode_try(address, exch))

(***************************************************************************)
(* AmapNavigation.get_walking_navigation                                   *)
(***************************************************************************)
\* walking_request with 'key': origin for 'key': self.api_key
walking_request_wrong_key(origin, destination) ==
    [method |-> "GET", url |-> walking_url,
     params |-> [key |-> origin, origin |-> origin,
                 destination |-> destination,
                 show_fields |-> "cost,navi,polyline"]]

\* the request that get_walking_navigation sends
walking_request(origin, destination) ==
    [method |-> "GET", url |-> walking_url,
     params |-> [key |-> api_key, origin |-> origin,
                 destination |-> destination,
                 show_fields |-> "cost,navi,polyline"]]

\* walking_check with result.get('status', '1') for result['status']
walking_check_default(result) ==
    IF result.kind # "dict" THEN Raised("TypeError", <<>>)
    ELSE IF ~Has(result.value, "status") THEN Returned(result, <<>>)
    ELSE IF result.value.status = "1" THEN Returned(result, <<>>)
    ELSE Returned(None, << <<"walking_failed">>, <<"error_info", result>> >>)

\* lines 77 to 82, on the parsed body
walking_check(result) ==
    IF result.kind # "dict" THEN Raised("TypeError", <<>>)
    ELSE IF ~Has(result.value, "status") THEN Raised("KeyError", <<>>)
    ELSE IF result.value.status = "1" THEN Returned(result, <<>>)
    ELSE Returned(None, << <<"walking_failed">>, <<"error_info", result>> >>)

walking_try(exch) ==
    LET got == HttpGetJson(exch)
    IN  IF got.raised # "none" THEN got ELSE walking_check(got.ret)

walking_except(tried) ==
    IF tried.raised = "none" THEN tried
    ELSE Returned(None, tried.out \o << <<"walking_exception", tried.raised>> >>)

\* get_walking_navigation(origin, destination), when the exchange is exch
get_walking_navigation(exch) == walking_except(walking_try(exch))

(***************************************************************************)
(* AmapNavigation.display_walking_navigation                               *)
(***************************************************************************)
\* the default of step.get('road_name', ...)
UnnamedRoad == "unnamed road"

\* lines 118 to 122: action_info, "" when there is none
action_info(step) ==
    IF ~Has(step, "navi") THEN ""
    ELSE IF ~Has(step.navi, "action") THEN ""
    ELSE step.navi.action

\* display_step with step['road_name'] for step.get('road_name', ...)
display_step_road_required(step, i) ==
    IF ~Has(step, "instruction") THEN Raised("KeyError", <<>>)
    ELSE IF ~Has(step, "road_name") THEN Raised("KeyError", <<>>)
    ELSE IF ~Has(step, "step_distance") THEN Raised("KeyError", <<>>)
    ELSE LET d == ParseInt(step.step_distance)
             action == action_info(step)
         IN  IF ~d.ok THEN Raised("ValueError", <<>>)
             ELSE Returned(None,
                      << <<"step", i, step.instruction>>,
                         <<"road_name", step.road_name>>,
                         <<"distance", IntToText(d.val)>> >>
                      \o (IF action # "" THEN << <<"action", action>> >>
                          ELSE <<>>))

\* lines 113 to 128: one turn of the loop, for the step numbered i
display_step(step, i) ==
    IF ~Has(step, "instruction") THEN Raised("KeyError", <<>>)
    ELSE IF ~Has(step, "step_distance") THEN Raised("KeyError", <<>>)
    ELSE LET d == ParseInt(step.step_distance)
             road_name == IF Has(step, "road_name") THEN step.road_name
                          ELSE UnnamedRoad
             action == action_info(step)
         IN  IF ~d.ok THEN Raised("ValueError", <<>>)
             ELSE Returned(None,
                      << <<"step", i, step.instruction>>,
                         <<"road_name", road_name>>,
                         <<"distance", IntToText(d.val)>> >>
                      \o (IF action # "" THEN << <<"action", action>> >>
                          ELSE <<>>))

RECURSIVE display_steps_from_zero(_, _, _)
\* display_steps with enumerate(steps) for enumerate(steps, 1)
display_steps_from_zero(steps, i, out) ==
    IF i > Len(steps) THEN Returned(None, out)
    ELSE LET one == display_step(steps[i], i - 1)
         IN  IF one.raised # "none" THEN Raised(one.raised, out)
             ELSE display_steps_from_zero(steps, i + 1, out \o one.out)

RECURSIVE display_steps(_, _, _)
\* lines 112 to 128: the loop from step i on, out being what is printed so far
display_steps(steps, i, out) ==
    IF i > Len(steps) THEN Returned(None, out)
    ELSE LET one == display_step(steps[i], i)
         IN  IF one.raised # "none" THEN Raised(one.raised, out)
             ELSE display_steps(steps, i + 1, out \o one.out)

\* lines 105 to 107: the duration line, if the path has a cost block
display_cost(paths, out) ==
    IF ~Has(paths, "cost") THEN Returned(None, out)
    ELSE IF ~Has(paths.cost, "duration") THEN Raised("KeyError", out)
    ELSE LET s == ParseInt(paths.cost.duration)
         IN  IF ~s.ok THEN Raised("ValueError", out)
             ELSE Returned(None,
                      out \o << <<"estimated_duration",
                                  FormatOneDecimal(s.val, 60)>> >>)

\* lines 101 to 128, paths being the first path
display_path(paths) ==
    LET header == << <<"route_header">> >>
    IN  IF ~Has(paths, "distance") THEN Raised("KeyError", header)
        ELSE LET m == ParseInt(paths.distance)
             IN  IF ~m.ok THEN Raised("ValueError", header)
                 ELSE LET cost == display_cost(paths,
                                      header \o << <<"total_distance",
                                          FormatOneDecimal(m.val, 1000)>> >>)
                      IN  IF cost.raised # "none" THEN cost
                          ELSE IF ~Has(paths, "steps")
                               THEN Raised("KeyError",
                                        cost.out \o << <<"steps_header">> >>)
                          ELSE display_steps(paths.steps, 1,
                                   cost.out \o << <<"steps_header">> >>)

\* line 94: not nav_result or 'route' not in nav_result
no_route(nav_result) ==
    \/ ~Truthy(nav_result)
    \/ /\ nav_result.kind = "list"
       /\ \A i \in 1..Len(nav_result.value) : nav_result.value[i] # "route"
    \/ nav_result.kind = "dict" /\ ~Has(nav_result.value, "route")

\* display_walking_navigation without the return of line 96: the subscript
\* of line 98 is evaluated on a result that has no 'route'
display_without_return(nav_result) ==
    IF no_route(nav_result)
    THEN Raised(IF nav_result.kind = "dict" THEN "KeyError" ELSE "TypeError",
                << <<"no_navigation_info">> >>)
    ELSE IF nav_result.kind = "list" THEN Raised("TypeError", <<>>)
    ELSE LET route == nav_result.value.route
         IN  IF ~Has(route, "paths") THEN Raised("KeyError", <<>>)
             ELSE IF route.paths = <<>> THEN Raised("IndexError", <<>>)
             ELSE display_path(route.paths[1])

\* display_walking_navigation(nav_result)
display_walking_navigation(nav_result) ==
    IF no_route(nav_result)
    THEN Returned(None, << <<"no_navigation_info">> >>)
    ELSE IF nav_result.kind = "list" THEN Raised("TypeError", <<>>)
    ELSE LET route == nav_result.value.route
         IN  IF ~Has(route, "paths") THEN Raised("KeyError", <<>>)
             ELSE IF route.paths = <<>> THEN Raised("IndexError", <<>>)
             ELSE display_path(route.paths[1])

(***************************************************************************)
(* The environment: what the user types and what the service answers.      *)
(***************************************************************************)
Addresses == {"A", "B"}

Locations == {"116.1,39.9", "116.2,39.8", ""}

\* the dicts that hold key k with a value of vals, and the one without k
Optional(k, vals) == {[info |-> "OK"]} \cup {(k :> v) @@ [info |-> "OK"] : v \in vals}

\* the lists of at most n elements of S
ListsUpTo(S, n) == UNION {[1..k -> S] : k \in 0..n}

GeocodeEntries ==
    {[formatted_address |-> "somewhere"]}
    \cup {[formatted_address |-> "somewhere", location |-> l] : l \in Locations}

GeocodeBodies ==
    {s @@ c @@ g : s \in Optional("status", {"0", "1"}),
                   c \in Optional("count", {"0", "1", "2"}),
                   g \in Optional("geocodes", ListsUpTo(GeocodeEntries, 2))}

Failures == {[kind |-> "transport_error"], [kind |-> "not_json"],
             [kind |-> "json", body |-> PyList(<<>>)]}

GeocodeExchanges ==
    Failures \cup {[kind |-> "json", body |-> PyDict(b)] : b \in GeocodeBodies}

Navis == {[action |-> "left"], [action |-> ""], [assistant_action |-> "arrive"]}

GoodSteps ==
    {[instruction |-> i, step_distance |-> <<"1", "2", "0">>] @@ r @@ n :
        i \in {"turn left", "go straight"},
        r \in {<<>>, [road_name |-> "Main St"]},
        n \in {<<>>} \cup {[navi |-> v] : v \in Navis}}

BadSteps ==
    {[step_distance |-> <<"1", "2", "0">>],
     [instruction |-> "turn left"],
     [instruction |-> "turn left", step_distance |-> <<"x">>]}

Costs == {<<>>, [cost |-> [duration |-> <<"9", "0">>]],
          [cost |-> [duration_text |-> "soon"]],
          [cost |-> [duration |-> <<"x">>]]}

\* paths that differ in their structure
StructuralPaths ==
    {[distance |-> <<"1", "0", "0", "0">>, steps |-> st] @@ c :
        st \in ListsUpTo(GoodSteps \cup BadSteps, MaxSteps), c \in Costs}
    \cup {[steps |-> <<>>], [distance |-> <<"1", "0", "0", "0">>],
          [distance |-> <<"x">>, steps |-> <<>>],
          [distance |-> <<>>, steps |-> <<>>]}

\* paths that differ in their numbers
NumericPaths ==
    {[distance |-> IntToText(m), steps |-> <<>>] : m \in 0..MaxMeters}
    \cup {[distance |-> <<"1", "0", "0", "0">>, steps |-> <<>>,
           cost |-> [duration |-> IntToText(d)]] : d \in 0..MaxSeconds}
    \cup {[distance |-> <<"5", "0", "0", "0">>,
           cost |-> [duration |-> <<"3", "6", "0", "0">>],
           steps |-> <<[instruction |-> "turn left",
                        step_distance |-> <<"0", "7", "0">>],
                       [instruction |-> "go straight",
                        step_distance |-> <<"+", "3", "0">>]>>],
          [distance |-> <<"0", "2", "5", "0">>, steps |-> <<>>],
          [distance |-> <<"-", "2", "5", "0">>, steps |-> <<>>]}

OtherPath ==
    [distance |-> <<"7", "7">>,
     steps |-> <<[instruction |-> "another way", step_distance |-> <<"7", "7">>]>>]

Routes ==
    {[info |-> "no paths"], [paths |-> <<>>]}
    \cup {[paths |-> <<p>>] : p \in StructuralPaths \cup NumericPaths}
    \cup {[paths |-> <<p, OtherPath>>] : p \in NumericPaths}

WalkingBodies ==
    {[status |-> "1"] @@ r : r \in {<<>>} \cup {[route |-> x] : x \in Routes}}
    \cup {s @@ r : s \in {[info |-> "error"], [status |-> "0"]},
                   r \in {<<>>, [route |-> [paths |-> <<OtherPath>>]]}}

WalkingExchanges ==
    Failures \cup {[kind |-> "json", body |-> PyDict(b)] : b \in WalkingBodies}

\* what display_walking_navigation may be called with
NavResults ==
    {None, PyList(<<>>), PyList(<<"route">>), PyList(<<"road">>)}
    \cup {PyDict(b) : b \in WalkingBodies}

(***************************************************************************)
(* State.                                                                  *)
(*   pc                   where main is: "start", "input_origin",          *)
(*                        "input_destination", "geocode_origin",           *)
(*                        "geocode_destination", "walking" (blocked in     *)
(*                        input() or requests.get), "exit" (main returned),*)
(*                        "uncaught" (an exception left main), or "client" *)
(*                        when the client's methods are called directly    *)
(*   origin_address, destination_address, origin_location,                 *)
(*   destination_location, nav_result      main's local variables          *)
(*   console              the lines printed so far                         *)
(*   requests             every HTTP request sent so far, in order         *)
(*   pending              the requests sent and not yet answered           *)
(*   calls                the calls of the client's methods made by main   *)
(*   call                 the direct call of a method of the client being  *)
(*                        observed: its arguments, exchange and outcome    *)
(***************************************************************************)
VARIABLES pc, origin_address, destination_address, origin_location,
          destination_location, nav_result, console, requests, pending,
          calls, call

mainvars == <<origin_address, destination_address, origin_location,
              destination_location, nav_result, console, requests, pending,
              calls>>

vars == <<pc, mainvars, call>>

Idle == [op |-> "idle"]

Start(at) ==
    /\ pc = at
    /\ origin_address = ""
    /\ destination_address = ""
    /\ origin_location = None
    /\ destination_location = None
    /\ nav_result = None
    /\ console = <<>>
    /\ requests = <<>>
    /\ pending = <<>>
    /\ calls = <<>>
    /\ call = Idle

(***************************************************************************)
(* main                                                                    *)
(***************************************************************************)
\* after_origin without the return of line 150
after_origin_no_return(location) == "geocode_destination"

\* lines 148 to 150: where main goes once geocode(origin_address) returned
after_origin(location) ==
    IF ~Truthy(location) THEN "exit" ELSE "geocode_destination"

\* lines 153 to 155
after_destination(location) ==
    IF ~Truthy(location) THEN "exit" ELSE "walking"

\* lines 164 to 168: whether the route is displayed
displays(result) == Truthy(result)

\* lines 136 to 142, up to the first input()
Enter ==
    /\ pc = "start"
    /\ console' = << <<"welcome">>, <<"enter_addresses">> >>
    /\ pc' = "input_origin"
    /\ UNCHANGED <<origin_address, destination_address, origin_location,
                   destination_location, nav_result, requests, pending,
                   calls, call>>

\* line 142: input() returns the origin address
InputOrigin ==
    /\ pc = "input_origin"
    /\ \E a \in Addresses : origin_address' = a
    /\ pc' = "input_destination"
    /\ UNCHANGED <<destination_address, origin_location,
                   destination_location, nav_result, console, requests,
                   pending, calls, call>>

\* lines 143 to 147: input() returns the destination address, and main calls
\* geocode(origin_address), which sends its request
InputDestination ==
    /\ pc = "input_destination"
    /\ \E a \in Addresses : destination_address' = a
    /\ console' = Append(console, <<"converting">>)
    /\ calls' = Append(calls, [op |-> "geocode", args |-> <<origin_address>>])
    /\ requests' = Append(requests, geocode_request(origin_address))
    /\ pending' = Append(pending, geocode_request(origin_address))
    /\ pc' = "geocode_origin"
    /\ UNCHANGED <<origin_address, origin_location, destination_location,
                   nav_result, call>>

\* lines 147 to 152: the exchange of geocode(origin_address) ends; main either
\* returns or calls geocode(destination_address), which sends its request
GeocodeOrigin ==
    /\ pc = "geocode_origin"
    /\ \E exch \in GeocodeExchanges :
          LET o == geocode(origin_address, exch)
              next == after_origin(o.ret)
          IN  /\ origin_location' = o.ret
              /\ pc' = next
              /\ IF next = "exit"
                 THEN /\ console' = console \o o.out
                                    \o << <<"origin_unrecognized">> >>
                      /\ pending' = Tail(pending)
                      /\ UNCHANGED <<requests, calls>>
                 ELSE /\ console' = console \o o.out
                      /\ calls' = Append(calls,
                             [op |-> "geocode", args |-> <<destination_address>>])
                      /\ requests' = Append(requests,
                             geocode_request(destination_address))
                      /\ pending' = Append(Tail(pending),
                             geocode_request(destination_address))
    /\ UNCHANGED <<origin_address, destination_address, destination_location,
                   nav_result, call>>

\* lines 152 to 162: the exchange of geocode(destination_address) ends; main
\* either returns or calls get_walking_navigation, which sends its request
GeocodeDestination ==
    /\ pc = "geocode_destination"
    /\ \E exch \in GeocodeExchanges :
          LET o == geocode(destination_address, exch)
              next == after_destination(o.ret)
          IN  /\ destination_location' = o.ret
              /\ pc' = next
              /\ IF next = "exit"
                 THEN /\ console' = console \o o.out
                                    \o << <<"destination_unrecognized">> >>
                      /\ pending' = Tail(pending)
                      /\ UNCHANGED <<requests, calls>>
                 ELSE /\ console' = console \o o.out
                            \o << <<"origin_coordinate", origin_location.value>>,
                                  <<"destination_coordinate", o.ret.value>>,
                                  <<"fetching_route">> >>
                      /\ calls' = Append(calls,
                             [op |-> "get_walking_navigation",
                              args |-> <<origin_location.value, o.ret.value>>])
                      /\ requests' = Append(requests,
                             walking_request(origin_location.value, o.ret.value))
                      /\ pending' = Append(Tail(pending),
                             walking_request(origin_location.value, o.ret.value))
    /\ UNCHANGED <<origin_address, destination_address, origin_location,
                   nav_result, call>>

\* lines 162 to 168: the exchange of get_walking_navigation ends; main
\* displays the route or reports that there is none
Walking ==
    /\ pc = "walking"
    /\ \E exch \in WalkingExchanges :
          LET o == get_walking_navigation(exch)
          IN  /\ nav_result' = o.ret
              /\ pending' = Tail(pending)
              /\ IF displays(o.ret)
                 THEN LET shown == display_walking_navigation(o.ret)
                      IN  /\ calls' = Append(calls,
                                 [op |-> "display_walking_navigation",
                                  args |-> <<o.ret>>])
                          /\ console' = console \o o.out \o shown.out
                          /\ pc' = IF shown.raised = "none" THEN "exit"
                                   ELSE "uncaught"
                 ELSE /\ console' = console \o o.out
                                    \o << <<"route_fetch_failed">> >>
                      /\ pc' = "exit"
                      /\ UNCHANGED calls
    /\ UNCHANGED <<origin_address, destination_address, origin_location,
                   destination_location, requests, call>>

Init == Start("start")

Next ==
    \/ Enter
    \/ InputOrigin
    \/ InputDestination
    \/ GeocodeOrigin
    \/ GeocodeDestination
    \/ Walking

\* one run of the program
Spec == Init /\ [][Next]_vars

(***************************************************************************)
(* The methods of an AmapNavigation, called directly                       *)
(***************************************************************************)
CallGeocode ==
    /\ pc = "client"
    /\ call = Idle
    /\ \E address \in Addresses, exch \in GeocodeExchanges :
          call' = [op |-> "geocode", args |-> <<address>>,
                   requests |-> <<geocode_request(address)>>,
                   exch |-> exch, outcome |-> geocode(address, exch)]
    /\ UNCHANGED <<pc, mainvars>>

CallWalking ==
    /\ pc = "client"
    /\ call = Idle
    /\ \E origin \in Locations, destination \in Locations,
          exch \in WalkingExchanges :
          /\ origin # ""
          /\ destination # ""
          /\ call' = [op |-> "get_walking_navigation",
                      args |-> <<origin, destination>>,
                      requests |-> <<walking_request(origin, destination)>>,
                      exch |-> exch,
                      outcome |-> get_walking_navigation(exch)]
    /\ UNCHANGED <<pc, mainvars>>

CallDisplay ==
    /\ pc = "client"
    /\ call = Idle
    /\ \E result \in NavResults :
          call' = [op |-> "display_walking_navigation", args |-> <<result>>,
                   requests |-> <<>>,
                   outcome |-> display_walking_navigation(result)]
    /\ UNCHANGED <<pc, mainvars>>

\* the call has returned or raised; the client is ready for the next one
Return ==
    /\ pc = "client"
    /\ call # Idle
    /\ call' = Idle
    /\ UNCHANGED <<pc, mainvars>>

InitClient == Start("client")

NextClient == CallGeocode \/ CallWalking \/ CallDisplay \/ Return

\* any sequence of direct calls
SpecClient == InitClient /\ [][NextClient]_vars

(***************************************************************************)
(* Properties of geocode and get_walking_navigation (under SpecClient)     *)
(***************************************************************************)
Fetches(op) == pc = "client" /\ call.op = op

\* the parsed body of the observed call's exchange is a dict
BodyIsDict == call.exch.kind = "json" /\ call.exch.body.kind = "dict"

\* the lines of out printed by the print statement named tag
Lines(out, tag) == SelectSeq(out, LAMBDA l : l[1] = tag)

\* C1: whatever the exchange (transport error, body that is not JSON, JSON
\* lacking 'status', 'count', 'geocodes' or 'location', an empty 'geocodes'
\* list), geocode and get_walking_navigation return normally, with a value
\* or None; no exception reaches the caller.
C1_NothingEscapes ==
    (Fetches("geocode") \/ Fetches("get_walking_navigation")) =>
        /\ call.outcome.raised = "none"
        /\ call.outcome.ret.kind \in {"None", "str", "dict"}

\* geocode met status "1" with an empty 'geocodes' list and returned None
C1_Witness ==
    /\ Fetches("geocode")
    /\ BodyIsDict
    /\ Has(call.exch.body.value, "status")
    /\ call.exch.body.value.status = "1"
    /\ Has(call.exch.body.value, "count")
    /\ call.exch.body.value.count = "1"
    /\ Has(call.exch.body.value, "geocodes")
    /\ call.exch.body.value.geocodes = <<>>
    /\ call.outcome = Returned(None, << <<"geocode_exception", "IndexError">> >>)

\* the response has status "1" and a count other than "0"
C3_Case ==
    /\ Fetches("geocode")
    /\ BodyIsDict
    /\ Has(call.exch.body.value, "status")
    /\ call.exch.body.value.status = "1"
    /\ Has(call.exch.body.value, "count")
    /\ call.exch.body.value.count # "0"

\* 'geocodes' has a first entry, which has a 'location'
C3_FirstLocation ==
    /\ Has(call.exch.body.value, "geocodes")
    /\ call.exch.body.value.geocodes # <<>>
    /\ Has(call.exch.body.value.geocodes[1], "location")

\* C3 as claimed: whenever the response has status "1" and a count other than
\* "0", geocode returns the 'location' of the first entry of 'geocodes' and
\* prints nothing.
C3_Original ==
    C3_Case =>
        /\ C3_FirstLocation
        /\ call.outcome.ret = PyStr(call.exch.body.value.geocodes[1].location)
        /\ call.outcome.out = <<>>

\* C3 as amended: whenever the response has status "1", a count other than
\* "0" and a 'geocodes' list whose first entry has a 'location', geocode
\* returns that 'location' unmodified and prints nothing.
C3_FirstLocationReturned ==
    (C3_Case /\ C3_FirstLocation) =>
        /\ call.outcome.raised = "none"
        /\ call.outcome.ret = PyStr(call.exch.body.value.geocodes[1].location)
        /\ call.outcome.out = <<>>

\* two entries with different locations: the first one's is returned
C3_Witness ==
    /\ C3_Case
    /\ C3_FirstLocation
    /\ Len(call.exch.body.value.geocodes) = 2
    /\ Has(call.exch.body.value.geocodes[2], "location")
    /\ call.exch.body.value.geocodes[1].location = "116.1,39.9"
    /\ call.exch.body.value.geocodes[2].location = "116.2,39.8"
    /\ call.outcome.ret = PyStr("116.1,39.9")

\* geocode returned None and printed a line that holds the address (the line
\* "error_info" holds the parsed body and nothing else)
C4_Reported ==
    /\ call.outcome.raised = "none"
    /\ call.outcome.ret = None
    /\ \E i \in 1..Len(call.outcome.out) :
          /\ call.outcome.out[i][1] # "error_info"
          /\ Len(call.outcome.out[i]) = 2
          /\ call.outcome.out[i][2] = call.args[1]

\* C4 as claimed: whenever the response has a status other than "1" or a
\* count equal to "0", geocode returns None and prints a diagnostic that
\* holds the address.
C4_Original ==
    ( /\ Fetches("geocode")
      /\ BodyIsDict
      /\ \/ /\ Has(call.exch.body.value, "status")
            /\ call.exch.body.value.status # "1"
         \/ /\ Has(call.exch.body.value, "count")
            /\ call.exch.body.value.count = "0" ) => C4_Reported

\* C4 as amended: whenever the response has a status other than "1", or has
\* status "1" and a count equal to "0", geocode returns None and prints a
\* diagnostic that holds the address.
C4_FailureReported ==
    ( /\ Fetches("geocode")
      /\ BodyIsDict
      /\ Has(call.exch.body.value, "status")
      /\ \/ call.exch.body.value.status # "1"
         \/ /\ Has(call.exch.body.value, "count")
            /\ call.exch.body.value.count = "0" ) => C4_Reported

\* status "1" and count "0": None, and the address is printed
C4_Witness ==
    /\ Fetches("geocode")
    /\ BodyIsDict
    /\ Has(call.exch.body.value, "status")
    /\ call.exch.body.value.status = "1"
    /\ Has(call.exch.body.value, "count")
    /\ call.exch.body.value.count = "0"
    /\ call.args = <<"B">>
    /\ call.outcome.ret = None
    /\ call.outcome.out[1] = <<"geocode_failed", "B">>

\* the response of the walking endpoint has the top-level status "1"
C5_StatusOne ==
    /\ BodyIsDict
    /\ Has(call.exch.body.value, "status")
    /\ call.exch.body.value.status = "1"

\* C5: get_walking_navigation returns the whole parsed body, unmodified, when
\* its top-level status is "1", and None in every other case (another
\* status, no status, a transport failure, a body that is no JSON object).
C5_BodyOrNone ==
    Fetches("get_walking_navigation") =>
        /\ call.outcome.raised = "none"
        /\ call.outcome.ret = IF C5_StatusOne THEN call.exch.body ELSE None

\* a body with status "1" and a route of two paths is returned as it is
C5_Witness ==
    /\ Fetches("get_walking_navigation")
    /\ C5_StatusOne
    /\ Has(call.exch.body.value, "route")
    /\ Has(call.exch.body.value.route, "paths")
    /\ Len(call.exch.body.value.route.paths) = 2
    /\ call.outcome.ret = call.exch.body
    /\ call.outcome.out = <<>>

(***************************************************************************)
(* Properties of display_walking_navigation (under SpecClient)             *)
(***************************************************************************)
Displays == Fetches("display_walking_navigation")

\* the route result handed to display_walking_navigation
Shown == call.args[1]

NoRouteField == Shown.kind = "dict" /\ ~Has(Shown.value, "route")

\* the result has a 'route' whose 'paths' list has a first path
HasFirstPath ==
    /\ Shown.kind = "dict"
    /\ Has(Shown.value, "route")
    /\ Has(Shown.value.route, "paths")
    /\ Shown.value.route.paths # <<>>

FirstPath == Shown.value.route.paths[1]

\* the step has its instruction and an integer text as its distance
StepComplete(step) ==
    /\ Has(step, "instruction")
    /\ Has(step, "step_distance")
    /\ ParseInt(step.step_distance).ok

\* the path has all the data model requires: an integer text as distance, a
\* list of complete steps and, if it has a cost block, an integer duration
PathComplete(path) ==
    /\ Has(path, "distance")
    /\ ParseInt(path.distance).ok
    /\ Has(path, "steps")
    /\ \A i \in 1..Len(path.steps) : StepComplete(path.steps[i])
    /\ Has(path, "cost") =>
          /\ Has(path.cost, "duration")
          /\ ParseInt(path.cost.duration).ok

\* C2 as claimed: display_walking_navigation returns normally for every
\* route result.
C2_Original == Displays => call.outcome.raised = "none"

\* C2 as amended: called with None or a parsed JSON object,
\* display_walking_navigation returns normally exactly when the object has no
\* 'route', or its route has a first path with an integer 'distance', a
\* 'steps' list whose steps have 'instruction' and an integer
\* 'step_distance', and an integer 'duration' in its cost block if it has
\* one; a missing cost block, road name, navi object or action never makes
\* it raise.
C2_RaisesOnlyOnMissingRequired ==
    (Displays /\ Shown.kind \in {"None", "dict"}) =>
        ( call.outcome.raised = "none" <=>
            \/ Shown = None
            \/ NoRouteField
            \/ HasFirstPath /\ PathComplete(FirstPath) )

\* a path without cost, whose only step has neither road name nor navi, is
\* displayed without an exception
C2_Witness ==
    /\ Displays
    /\ HasFirstPath
    /\ PathComplete(FirstPath)
    /\ ~Has(FirstPath, "cost")
    /\ Len(FirstPath.steps) = 1
    /\ ~Has(FirstPath.steps[1], "road_name")
    /\ ~Has(FirstPath.steps[1], "navi")
    /\ call.outcome.raised = "none"
    /\ Len(call.outcome.out) = 6

\* C7: called with None, or with a result that has no 'route' field,
\* display_walking_navigation prints exactly one line, "no navigation
\* information available", and returns.
C7_OnlyNoRouteLine ==
    (Displays /\ (Shown = None \/ NoRouteField)) =>
        call.outcome = Returned(None, << <<"no_navigation_info">> >>)

\* a successful response (status "1") without 'route' was displayed
C7_Witness ==
    /\ Displays
    /\ NoRouteField
    /\ Has(Shown.value, "status")
    /\ Shown.value.status = "1"
    /\ call.outcome.out = << <<"no_navigation_info">> >>

\* the block of the step numbered k
C8_Block(step, k) ==
    << <<"step", k, step.instruction>>,
       <<"road_name", IF Has(step, "road_name") THEN step.road_name
                      ELSE "unnamed road">>,
       <<"distance", IntToText(ParseInt(step.step_distance).val)>> >>
    \o (IF Has(step, "navi") /\ Has(step.navi, "action")
           /\ step.navi.action # ""
        THEN << <<"action", step.navi.action>> >>
        ELSE <<>>)

RECURSIVE C8_Blocks(_, _)
\* the blocks of the steps k, k + 1, ... of steps
C8_Blocks(steps, k) ==
    IF k > Len(steps) THEN <<>>
    ELSE C8_Block(steps[k], k) \o C8_Blocks(steps, k + 1)

\* what is printed after the line that heads the steps
C8_AfterHeader(out) ==
    LET h == CHOOSE i \in 1..Len(out) : out[i] = <<"steps_header">>
    IN  SubSeq(out, h + 1, Len(out))

\* C8: for a route result with at least one path (complete as the data model
\* requires), what follows the steps header is one block per step of the
\* first path, in the order of 'steps', numbered 1..n: the instruction, the
\* road name (the placeholder when 'road_name' is absent), the distance in
\* meters, and an action line if and only if the step has a 'navi' object
\* with a non-empty 'action'; with no steps nothing follows the header.
C8_OneBlockPerStep ==
    (Displays /\ HasFirstPath /\ PathComplete(FirstPath)) =>
        /\ Len(Lines(call.outcome.out, "steps_header")) = 1
        /\ C8_AfterHeader(call.outcome.out) = C8_Blocks(FirstPath.steps, 1)
        /\ Len(Lines(call.outcome.out, "step")) = Len(FirstPath.steps)

\* two steps: the first without road name and with the action "left", the
\* second with an empty action; seven lines follow the header
C8_Witness ==
    /\ Displays
    /\ HasFirstPath
    /\ PathComplete(FirstPath)
    /\ Len(FirstPath.steps) = 2
    /\ FirstPath.steps[1].instruction = "go straight"
    /\ FirstPath.steps[2].instruction = "turn left"
    /\ ~Has(FirstPath.steps[1], "road_name")
    /\ Has(FirstPath.steps[1], "navi")
    /\ FirstPath.steps[1].navi = [action |-> "left"]
    /\ Has(FirstPath.steps[2], "navi")
    /\ FirstPath.steps[2].navi = [action |-> ""]
    /\ Len(C8_AfterHeader(call.outcome.out)) = 7
    /\ Lines(call.outcome.out, "step")
          = << <<"step", 1, "go straight">>, <<"step", 2, "turn left">> >>

\* the number of tenths that a text of the form digits "." digit denotes
C9_TenthsOf(text) == DigitsValue(SelectSeq(text, LAMBDA c : c # "."))

\* the text has one decimal place
C9_OneDecimal(text) ==
    /\ Len(text) >= 3
    /\ text[Len(text) - 1] = "."
    /\ AllDigits(SelectSeq(text, LAMBDA c : c # "."))
    /\ Len(SelectSeq(text, LAMBDA c : c # ".")) = Len(text) - 1

\* a complete first path whose distance (and duration, if any) is a
\* non-negative integer text
C9_Case ==
    /\ Displays
    /\ HasFirstPath
    /\ PathComplete(FirstPath)
    /\ AllDigits(FirstPath.distance)
    /\ Has(FirstPath, "cost") => AllDigits(FirstPath.cost.duration)

C9_Meters == DigitsValue(FirstPath.distance)

C9_Seconds == DigitsValue(FirstPath.cost.duration)

C9_DistanceLines == Lines(call.outcome.out, "total_distance")

C9_DurationLines == Lines(call.outcome.out, "estimated_duration")

\* the duration line: none without a cost block; with one, duration / 60 to
\* one decimal place ("90" prints 1.5, "3600" prints 60.0)
C9_Duration ==
    IF ~Has(FirstPath, "cost") THEN C9_DurationLines = <<>>
    ELSE /\ Len(C9_DurationLines) = 1
         /\ C9_OneDecimal(C9_DurationLines[1][2])
         /\ LET t == C9_TenthsOf(C9_DurationLines[1][2])
            IN  /\ 6 * t - 3 <= C9_Seconds
                /\ C9_Seconds <= 6 * t + 3
                /\ C9_Seconds = 90 => t = 15
                /\ C9_Seconds = 3600 => t = 600

\* C9 as claimed: the total distance is printed as distance / 1000 rounded
\* half-up to one decimal place; the duration as duration / 60 to one decimal
\* place when there is a cost block, and not at all when there is none.
C9_Original ==
    C9_Case =>
        /\ Len(C9_DistanceLines) = 1
        /\ C9_OneDecimal(C9_DistanceLines[1][2])
        /\ C9_TenthsOf(C9_DistanceLines[1][2]) = (C9_Meters + 50) \div 100
        /\ C9_Duration

\* C9 as amended: the total distance is printed as distance / 1000 rounded to
\* the nearest tenth; this is the half-up rounding except for a distance
\* halfway between two tenths (distance mod 100 = 50), which is rounded as the
\* floating-point quotient lies: "150" prints 0.1 and "250" prints 0.2, while
\* "50" prints 0.1; "1000" prints 1.0 and "5000" prints 5.0.  The duration is
\* as claimed.
C9_NearestTenth ==
    C9_Case =>
        /\ Len(C9_DistanceLines) = 1
        /\ C9_OneDecimal(C9_DistanceLines[1][2])
        /\ LET t == C9_TenthsOf(C9_DistanceLines[1][2])
           IN  /\ 100 * t - 50 <= C9_Meters
               /\ C9_Meters <= 100 * t + 50
               /\ C9_Meters % 100 # 50 => t = (C9_Meters + 50) \div 100
               /\ C9_Meters = 50 => t = 1
               /\ C9_Meters = 150 => t = 1
               /\ C9_Meters = 250 => t = 2
               /\ C9_Meters = 1000 => t = 10
               /\ C9_Meters = 5000 => t = 50
        /\ C9_Duration

\* 250 meters were printed as 0.2 kilometers
C9_Witness ==
    /\ C9_Case
    /\ FirstPath.distance = <<"2", "5", "0">>
    /\ C9_DistanceLines = << <<"total_distance", <<"0", ".", "2">> >> >>
    /\ C9_DurationLines = <<>>

(***************************************************************************)
(* Properties of main (under Spec)                                         *)
(***************************************************************************)
\* the calls a complete run makes, in order
C6_Order == <<"geocode", "geocode", "get_walking_navigation",
              "display_walking_navigation">>

\* main is past the exchange of its k-th call
C6_Answered(k) ==
    /\ Len(calls) >= k
    /\ pc # <<"geocode_origin", "geocode_destination", "walking">>[k]
       \/ Len(calls) > k

\* C6: main makes its calls in the order geocode(origin), geocode
\* (destination), get_walking_navigation, display_walking_navigation, each at
\* most once; the destination is geocoded only after the origin resolved, the
\* route is requested only after both resolved, and it is displayed only when
\* it is not None; main returns with a message the first time an address does
\* not resolve or no route is returned.
C6_StopsAtFirstFailure ==
    /\ Len(calls) <= 4
    /\ \A i \in 1..Len(calls) : calls[i].op = C6_Order[i]
    /\ Len(calls) >= 1 => calls[1].args = <<origin_address>>
    /\ Len(calls) >= 2 =>
          /\ Truthy(origin_location)
          /\ calls[2].args = <<destination_address>>
    /\ Len(calls) >= 3 =>
          /\ Truthy(destination_location)
          /\ calls[3].args = <<origin_location.value, destination_location.value>>
    /\ Len(calls) = 4 =>
          /\ nav_result # None
          /\ calls[4].args = <<nav_result>>
    /\ (C6_Answered(1) /\ ~Truthy(origin_location)) =>
          /\ pc = "exit"
          /\ Len(calls) = 1
          /\ console[Len(console)] = <<"origin_unrecognized">>
    /\ (C6_Answered(2) /\ ~Truthy(destination_location)) =>
          /\ pc = "exit"
          /\ Len(calls) = 2
          /\ console[Len(console)] = <<"destination_unrecognized">>
    /\ (C6_Answered(3) /\ nav_result = None) =>
          /\ pc = "exit"
          /\ Len(calls) = 3
          /\ console[Len(console)] = <<"route_fetch_failed">>

\* the origin resolved, the destination did not: main returned after two
\* calls
C6_Witness ==
    /\ pc = "exit"
    /\ Len(calls) = 2
    /\ origin_location = PyStr("116.1,39.9")
    /\ destination_location = None
    /\ requests = <<geocode_request(origin_address),
                    geocode_request(destination_address)>>

\* the URLs a complete run requests, in order
C10_Urls == <<geocode_url, geocode_url, walking_url>>

\* C10: at most one request is outstanding at any time; every call of geocode
\* or get_walking_navigation sends exactly one GET request, with the same
\* credential as its 'key'; a run sends at most three requests, in the order
\* geocode(origin), geocode(destination), walking route.
C10_OneRequestAtATime ==
    /\ Len(pending) <= 1
    /\ Len(requests) <= 3
    /\ Len(requests) = Len(SelectSeq(calls,
           LAMBDA c : c.op # "display_walking_navigation"))
    /\ \A i \in 1..Len(requests) :
          /\ requests[i].method = "GET"
          /\ requests[i].url = C10_Urls[i]
          /\ requests[i].params.key = api_key
          /\ requests[i].params.key = requests[1].params.key
    /\ Len(requests) >= 1 => requests[1].params.address = origin_address
    /\ Len(requests) >= 2 => requests[2].params.address = destination_address
    /\ Len(requests) = 3 =>
          /\ requests[3].params.origin = origin_location.value
          /\ requests[3].params.destination = destination_location.value
    /\ pending = IF pc \in {"geocode_origin", "geocode_destination", "walking"}
                 THEN <<requests[Len(requests)]>>
                 ELSE <<>>

\* a complete run: three requests were sent and answered, the route displayed
C10_Witness ==
    /\ pc = "exit"
    /\ Len(requests) = 3
    /\ pending = <<>>
    /\ Len(calls) = 4
    /\ requests[1].params.address = "A"
    /\ requests[2].params.address = "B"
====
